---- MODULE Spec2Model ----
(***************************************************************************)
(* State-machine model of factorio_inspect: FactorioInstance (instance.py) *)
(* and FactorioSandboxEnvironment (environment.py).                        *)
(*                                                                         *)
(* The container engine (docker) is an opaque collaborator: each of its    *)
(* calls may succeed or raise, and each status query (reload) answers with *)
(* a status the engine chooses.  container.status is only ever read right  *)
(* after the reload() that refreshed it, so the status is an input of the  *)
(* step that queries it, never state.  The engine-side facts that persist  *)
(* are kept in cstate.                                                     *)
(*                                                                         *)
(* Coroutines: start() suspends only in _wait_for_ready (asyncio.sleep);   *)
(* stop(), is_running, exec() and sample_cleanup() contain no suspension   *)
(* point that is ever reached, so each of them is one atomic action.       *)
(***************************************************************************)
EXTENDS Integers, Sequences, FiniteSets, TLC

(* ------------------------------ bounds -------------------------------- *)
NumInst == 2
NumTasks == 2
MaxStarts == 2

(* ------------------------- program constants -------------------------- *)
max_attempts == 30
PortSpan == 1000
DefaultTimeout == "30.0"

Insts == 1..NumInst
Tasks == 1..NumTasks
Cids == 1..MaxStarts

NotRunningMsg == "Factorio instance is not running"
NoCodeMsg == "No Python code provided"
NotImplementedMsg == "execute_python_code method not implemented yet"
ExecFailedPrefix == "Execution failed: "
NoContainerMsg == "Container not available"
EngineErrMsg == "engine error"
StartFailedPrefix == "Failed to start Factorio instance: "
NotReadyMsg == "Factorio container failed to become ready after 30 attempts"
ExitedMsg == "Container exited. Logs: <logs>"

VARIABLES
    container,      \* [Insts -> 0..MaxStarts]   self.container, 0 is None
    docker_client,  \* [Insts -> 0..MaxStarts]   self.docker_client, 0 is None
    initialized,    \* [Insts -> BOOLEAN]        self._initialized
    rcon_client,    \* [Insts -> "absent" | "open"]  attribute the class never defines;
                    \*   "open": a caller has assigned a connected channel to it
    cstate,         \* [Cids -> "none" | "present" | "removed"]  engine-side existence
    nstarts,        \* number of docker.from_env() clients created so far
    task,           \* [Tasks -> coroutine frame of a start() call]
    life,           \* [Insts -> history of the lifecycle calls on the instance]
    instance_id,    \* [Insts -> 0 | Stamps]  id given by sample_init (0: by the owner)
    block,          \* [Insts -> BOOLEAN]     an `async with instance` block is open
    last            \* record of the operation completed by the last step

vars == <<container, docker_client, initialized, rcon_client, cstate,
          nstarts, task, life, instance_id, block, last>>

(* What a status query can answer: reload() raises, or container.status.   *)
Reports == {"error", "created", "running", "exited"}

(* An engine call on container c can succeed only while the engine still   *)
(* knows the container.                                                    *)
Alive(S, c) == c # 0 /\ S.cstate[c] = "present"

(* The instance fields and the engine-side facts, as one value.            *)
Cur ==
    [container |-> container, docker_client |-> docker_client,
     initialized |-> initialized, cstate |-> cstate]

Fields(S, i) ==
    [container |-> S.container[i], docker_client |-> S.docker_client[i],
     initialized |-> S.initialized[i]]

IdleTask ==
    [pc |-> "idle", inst |-> 0, attempt |-> 0, cid |-> 0, sawExited |-> FALSE,
     caller |-> ""]

NoResult == [success |-> FALSE, returncode |-> -1, stdout |-> "", stderr |-> ""]
NoPy == [called |-> FALSE, code |-> "", timeout |-> ""]
(* container: the handle exec_run was invoked on (0: no call).             *)
NoRun ==
    [called |-> FALSE, container |-> 0, cmd |-> <<>>, workdir |-> "",
     environment |-> ""]
NoExc == [type |-> "", msg |-> ""]
(* What a call of exec_run did: see RunOutcomes.                           *)
(* The ports start() computed for instances that share one configuration. *)
NoNet == [base_port |-> 0, rcon_port |-> 0, ids |-> <<>>, hashes |-> <<>>,
          ports |-> <<>>]
NoRan == [raised |-> FALSE, msg |-> "", exit_code |-> -1, output |-> "", utf8 |-> TRUE]

NoOp ==
    [op |-> "none", inst |-> 0, raised |-> FALSE, calls |-> 0,
     pre |-> [container |-> 0, docker_client |-> 0, initialized |-> FALSE],
     ret |-> FALSE, rep |-> "error", reloads |-> 0, cid |-> 0, sawExited |-> FALSE,
     forcedOn |-> 0, forceOK |-> FALSE, closedClient |-> 0,
     result |-> NoResult, py |-> NoPy, run |-> NoRun,
     arg |-> <<>>, timeout |-> "", isNone |-> FALSE, failures |-> 0,
     stops |-> [j \in Insts |-> 0],
     caller |-> "", callerRaised |-> FALSE, envs |-> <<>>, exc |-> NoExc,
     log |-> <<>>, cwd |-> "", env |-> "", ran |-> NoRan, net |-> NoNet]

Init ==
    /\ container = [i \in Insts |-> 0]
    /\ docker_client = [i \in Insts |-> 0]
    /\ initialized = [i \in Insts |-> FALSE]
    /\ rcon_client = [i \in Insts |-> "absent"]
    /\ cstate = [c \in Cids |-> "none"]
    /\ nstarts = 0
    /\ task = [t \in Tasks |-> IdleTask]
    /\ life = [i \in Insts |-> "never_started"]
    /\ instance_id = [i \in Insts |-> 0]
    /\ block = [i \in Insts |-> FALSE]
    /\ last = NoOp

(* ---------------------- FactorioInstance.is_running ------------------- *)
(* rep: the answer of the engine to the status query of this call.         *)
Reload(S, c, rep) == IF Alive(S, c) THEN rep ELSE "error"

(* Variant: the initialized flag is not consulted. *)
is_running_NoInitCheck(S, i, rep) ==
    LET c == S.container[i] IN
    IF c = 0
    THEN [ret |-> FALSE, calls |-> 0, raised |-> FALSE]
    ELSE [ret |-> (Reload(S, c, rep) = "running"), calls |-> 1, raised |-> FALSE]

(* Variant: any status the refresh returns counts as running. *)
is_running_AnyStatus(S, i, rep) ==
    LET c == S.container[i] IN
    IF ~S.initialized[i] \/ c = 0
    THEN [ret |-> FALSE, calls |-> 0, raised |-> FALSE]
    ELSE [ret |-> (Reload(S, c, rep) # "error"), calls |-> 1, raised |-> FALSE]

(* Variant: a failure of the refresh is not caught. *)
is_running_Propagates(S, i, rep) ==
    LET c == S.container[i] IN
    IF ~S.initialized[i] \/ c = 0
    THEN [ret |-> FALSE, calls |-> 0, raised |-> FALSE]
    ELSE [ret |-> (Reload(S, c, rep) = "running"), calls |-> 1,
          raised |-> (Reload(S, c, rep) = "error")]

(* ret: the value of the property; calls: the engine calls it made (the   *)
(* reload); raised: an exception leaves the property (lines 147-151       *)
(* catch every Exception).                                                *)
is_running(S, i, rep) ==
    LET c == S.container[i] IN
    IF ~S.initialized[i] \/ c = 0
    THEN [ret |-> FALSE, calls |-> 0, raised |-> FALSE]
    ELSE [ret |-> (Reload(S, c, rep) = "running"), calls |-> 1, raised |-> FALSE]

(* ------------------------ FactorioInstance.stop ----------------------- *)
(* o: which call of the graceful path raises, if any (the record of a     *)
(* call that gets past the guard keeps it in arg); f: the forced          *)
(* removal succeeds.  A call on a container the engine no longer knows    *)
(* always raises.                                                         *)
StopOutcomes == {"ok", "stop_fails", "remove_fails"}

(* Variant: the finally-block does not reset the initialized flag. *)
StopFinally_KeepFlag(S, i) == [S EXCEPT !.docker_client[i] = 0]

(* Variant: the finally-block leaves the engine client in place. *)
StopFinally_KeepClient(S, i) == [S EXCEPT !.initialized[i] = FALSE]

(* finally-block of stop(): lines 111-115 *)
StopFinally(S, i) ==
    [S EXCEPT !.initialized[i] = FALSE, !.docker_client[i] = 0]

(* Variant: the guard tests the container handle alone. *)
StopIsNoop_ContainerOnly(S, i) == S.container[i] = 0

(* Variant: the guard returns only when flag and handle are both unset. *)
StopIsNoop_BothUnset(S, i) == ~S.initialized[i] /\ S.container[i] = 0

(* Guard of stop(), line 95. *)
StopIsNoop(S, i) == ~S.initialized[i] \/ S.container[i] = 0

(* Variant: the fault is swallowed when the forced removal succeeded. *)
StopReraises_OnlyIfForcedFailed(forceOK) == ~forceOK

(* except-block of stop(), lines 102-110: after the forced removal, which *)
(* is tried inside its own try/except, line 110 raises in every case.     *)
StopReraises(forceOK) == TRUE

stop(S, i, o, f) ==
    LET c == S.container[i]
        stopOK == Alive(S, c) /\ o # "stop_fails"
        removeOK == stopOK /\ o # "remove_fails"
        forceOK == Alive(S, c) /\ f
        closeCalls == IF S.docker_client[i] # 0 THEN 1 ELSE 0
    IN
    IF StopIsNoop(S, i)
    THEN [S |-> S, raised |-> FALSE, calls |-> 0, forcedOn |-> 0, forceOK |-> FALSE,
          closedClient |-> 0]
    ELSE IF removeOK
    THEN [S |-> StopFinally([S EXCEPT !.cstate[c] = "removed",
                                      !.container[i] = 0], i),
          raised |-> FALSE, calls |-> 2 + closeCalls,
          forcedOn |-> 0, forceOK |-> FALSE, closedClient |-> S.docker_client[i]]
    ELSE [S |-> StopFinally(
                  [S EXCEPT !.cstate[c] = IF forceOK THEN "removed" ELSE S.cstate[c],
                            !.container[i] = IF forceOK THEN 0 ELSE c], i),
          raised |-> StopReraises(forceOK),
          calls |-> (IF stopOK THEN 2 ELSE 1) + 1 + closeCalls,
          forcedOn |-> c, forceOK |-> forceOK, closedClient |-> S.docker_client[i]]

(* Writes a value of the shape of Cur back to the variables.              *)
Commit(S) ==
    /\ container' = S.container
    /\ docker_client' = S.docker_client
    /\ initialized' = S.initialized
    /\ cstate' = S.cstate

(* No start() coroutine is suspended: the owner awaits each call before   *)
(* it issues the next one.                                                *)
Quiescent == \A t \in Tasks : task[t].pc = "idle"

IsRunning(i) ==
    \E rep \in Reports :
        LET r == is_running(Cur, i, rep) IN
        /\ last' = [NoOp EXCEPT !.op = "is_running", !.inst = i,
                                !.pre = Fields(Cur, i),
                                !.ret = r.ret, !.rep = rep, !.raised = r.raised,
                                !.calls = r.calls, !.reloads = r.calls]
        /\ UNCHANGED <<container, docker_client, initialized, rcon_client, instance_id, block,
                       cstate, nstarts, task, life>>

Stop(i) ==
    \E o \in StopOutcomes, f \in BOOLEAN :
        LET r == stop(Cur, i, o, f) IN
        /\ Commit(r.S)
        /\ life' = IF initialized[i] /\ container[i] # 0
                   THEN [life EXCEPT ![i] = "stopped"] ELSE life
        /\ last' = [NoOp EXCEPT !.op = "stop", !.inst = i,
                                !.pre = Fields(Cur, i),
                                !.raised = r.raised, !.calls = r.calls,
                                !.forcedOn = r.forcedOn, !.forceOK = r.forceOK,
                                !.closedClient = r.closedClient,
                                !.arg = IF initialized[i] /\ container[i] # 0
                                        THEN <<o>> ELSE <<>>]
        /\ UNCHANGED <<rcon_client, instance_id, block, nstarts, task>>

(* ------------------------ FactorioInstance.start ---------------------- *)
(* except-block of start(), lines 85-91: the container the instance holds *)
(* gets a best-effort remove(force=True); f: that removal succeeds.       *)
(* Variant: the except-block re-raises without removing the container. *)
StartHandler_NoRemove(S, i, f) == [S |-> S, forcedOn |-> 0, forceOK |-> FALSE]

StartHandler(S, i, f) ==
    LET c == S.container[i] IN
    IF c = 0 THEN [S |-> S, forcedOn |-> 0, forceOK |-> FALSE]
    ELSE [S |-> [S EXCEPT !.cstate[c] = IF Alive(S, c) /\ f THEN "removed"
                                        ELSE S.cstate[c]],
          forcedOn |-> c, forceOK |-> (Alive(S, c) /\ f)]

(* Variant: start() has no early return. *)
StartIsNoop_Never(S, i) == FALSE

(* Guard of start(), lines 34-35. *)
StartIsNoop(S, i) == S.initialized[i]

(* Variant: start() returns without setting the flag. *)
MarkInitialized_Skip(S, i) == S

(* Variant: the flag is one attribute shared by every instance. *)
MarkInitialized_Shared(S, i) == [S EXCEPT !.initialized = [j \in Insts |-> TRUE]]

(* self._initialized = True, line 83. *)
MarkInitialized(S, i) == [S EXCEPT !.initialized[i] = TRUE]

(* One iteration of the loop of _wait_for_ready, without its final sleep. *)
(* "ready": status running was read; "retry": anything else, an exited    *)
(* status included, whose RuntimeError is caught by the except clause of  *)
(* the same iteration (lines 183-189).                                    *)
wait_for_ready(S, i, rep) ==
    LET c == S.container[i] IN
    IF c = 0 THEN [next |-> "raise", exited |-> FALSE]
    ELSE IF Reload(S, c, rep) = "running"
    THEN [next |-> "ready", exited |-> FALSE]
    ELSE [next |-> "retry", exited |-> (Reload(S, c, rep) = "exited")]

StartOutcomes == {"env_fails", "cfg_fails", "run_fails", "ok"}

(* cid: the container this call created; forcedOn: the container its      *)
(* except-block issued remove(force=True) against (0: none).              *)
StartRecord(i, raised, calls, cid, saw, h) ==
    [NoOp EXCEPT !.op = "start", !.inst = i, !.pre = Fields(Cur, i),
                 !.raised = raised, !.calls = calls,
                 !.cid = cid, !.sawExited = saw,
                 !.forcedOn = h.forcedOn, !.forceOK = h.forceOK]

NoHandler == [forcedOn |-> 0, forceOK |-> FALSE]

StepRecord(i) == [NoOp EXCEPT !.op = "start_step", !.inst = i, !.pre = Fields(Cur, i)]

(* start() is suspended after a status query: status is what the query    *)
(* answered ("error": reload() raised), n the queries made so far.        *)
Polled(i, status, n) == [StepRecord(i) EXCEPT !.rep = status, !.reloads = n]

(* The RuntimeError the except-block of start() raises, line 91, around   *)
(* the message of the exception it caught.                                *)
StartRaise(rec, cause) ==
    [rec EXCEPT !.exc = [type |-> "RuntimeError", msg |-> StartFailedPrefix \o cause]]

(* Variant: the loop makes one iteration more. *)
LoopExhausted_OneMore(a) == a > max_attempts

(* for attempt in range(max_attempts), line 169: a iterations are done.   *)
LoopExhausted(a) == a >= max_attempts

(* Who awaits a start(): the owner itself, sample_init (environment.py    *)
(* line 178) or __aenter__ (instance.py line 160).  "start_again" is the  *)
(* owner calling start() on an instance it has stopped.                   *)
Callers == {"start", "start_again", "sample_init", "aenter"}

(* Variant: sample_init returns the mapping whatever start() did. *)
sample_init_return_Swallow(i, startRaised) == [raised |-> FALSE, envs |-> <<i>>]

(* sample_init after its `await instance.start()`, lines 178-183: a fault *)
(* of start() propagates, otherwise {"sandbox": cls(instance)} is         *)
(* returned; envs lists the instances the returned mapping wraps.         *)
sample_init_return(i, startRaised) ==
    IF startRaised THEN [raised |-> TRUE, envs |-> <<>>]
    ELSE [raised |-> FALSE, envs |-> <<i>>]

(* __aenter__ after its `await self.start()`, lines 160-161: the block is *)
(* entered when start() did not raise.                                    *)
aenter_return(i, startRaised) == [raised |-> startRaised, entered |-> ~startRaised]

(* Variant: the flag is set as soon as the container is created. *)
RunContainer_MarksEarly(S, i, k) ==
    [S EXCEPT !.container[i] = k, !.cstate[k] = "present", !.initialized[i] = TRUE]

(* self.container = self.docker_client.containers.run(...), line 78,     *)
(* when the engine creates container k.                                   *)
RunContainer(S, i, k) == [S EXCEPT !.container[i] = k, !.cstate[k] = "present"]

(* A start() call completes with record rec and its caller goes on.       *)
Completed(who, i, rec) ==
    LET out == CASE who = "sample_init" -> sample_init_return(i, rec.raised)
                 [] who = "aenter" ->
                      [raised |-> aenter_return(i, rec.raised).raised, envs |-> <<>>]
                 [] OTHER -> [raised |-> rec.raised, envs |-> <<>>]
    IN
    /\ last' = [rec EXCEPT !.caller = who, !.callerRaised = out.raised,
                           !.envs = out.envs]
    /\ block' = IF who = "aenter" /\ aenter_return(i, rec.raised).entered
                THEN [block EXCEPT ![i] = TRUE] ELSE block

(* start() awaited by `who`, up to its first suspension point (or its     *)
(* return or raise).  pre: how far the call gets before the readiness     *)
(* polling; rep: the answer to the first status query; f: the forced      *)
(* removal succeeds.                                                      *)
StartBeginAs(t, i, who) ==
    /\ task[t].pc = "idle"
    /\ \A u \in Tasks : u < t => task[u].pc # "idle"
    /\ IF StartIsNoop(Cur, i)
       THEN /\ Completed(who, i, StartRecord(i, FALSE, 0, 0, FALSE, NoHandler))
            /\ UNCHANGED <<container, docker_client, initialized, rcon_client,
                           cstate, nstarts, task, life>>
       ELSE /\ nstarts < MaxStarts
            /\ LET k == nstarts + 1
                   S1 == [Cur EXCEPT !.docker_client[i] = k]
                   S2 == RunContainer(S1, i, k)
               IN
               \E pre \in StartOutcomes :
                 CASE pre = "env_fails" ->
                        /\ Completed(who, i, StartRaise(
                               StartRecord(i, TRUE, 1, 0, FALSE, NoHandler), EngineErrMsg))
                        /\ life' = [life EXCEPT ![i] = "start_failed"]
                        /\ UNCHANGED <<container, docker_client, initialized,
                                       rcon_client, cstate, nstarts, task>>
                   [] pre = "cfg_fails" ->
                        /\ Commit(S1)
                        /\ nstarts' = k
                        /\ Completed(who, i, StartRaise(
                               StartRecord(i, TRUE, 1, 0, FALSE, NoHandler), EngineErrMsg))
                        /\ life' = [life EXCEPT ![i] = "start_failed"]
                        /\ UNCHANGED <<rcon_client, task>>
                   [] pre = "run_fails" ->
                        /\ \E f \in (IF Alive(S1, container[i]) THEN BOOLEAN ELSE {FALSE}) :
                              LET h == StartHandler(S1, i, f) IN
                              /\ Commit(h.S)
                              /\ Completed(who, i, StartRaise(StartRecord(i, TRUE,
                                           IF h.forcedOn # 0 THEN 3 ELSE 2, 0, FALSE, h),
                                           EngineErrMsg))
                        /\ nstarts' = k
                        /\ life' = [life EXCEPT ![i] = "start_failed"]
                        /\ UNCHANGED <<rcon_client, task>>
                   [] pre = "ok" ->
                        /\ Commit(S2)
                        /\ nstarts' = k
                        /\ \E rep \in Reports :
                             LET w == wait_for_ready(S2, i, rep) IN
                             /\ task' = [task EXCEPT ![t] =
                                 [pc |-> IF w.next = "ready" THEN "grace_sleep"
                                         ELSE "poll_sleep",
                                  inst |-> i, attempt |-> 0, cid |-> k,
                                  sawExited |-> w.exited, caller |-> who]]
                             /\ last' = Polled(i, Reload(S2, k, rep), 1)
                        /\ life' = [life EXCEPT ![i] = "starting"]
                        /\ UNCHANGED <<rcon_client, block>>

(* start() called by the owner of the instance.                           *)
StartBegin(t, i) == StartBeginAs(t, i, "start") /\ UNCHANGED instance_id

(* start() resumes from asyncio.sleep(1): next iteration of the loop, or  *)
(* the loop is exhausted and start() raises through its except-block.     *)
StartPoll(t) ==
    /\ task[t].pc = "poll_sleep"
    /\ LET i == task[t].inst
           a == task[t].attempt + 1
       IN
       IF LoopExhausted(a) \/ container[i] = 0
       THEN /\ \E f \in (IF Alive(Cur, container[i]) THEN BOOLEAN ELSE {FALSE}) :
                  LET h == StartHandler(Cur, i, f) IN
                  /\ Commit(h.S)
                  /\ Completed(task[t].caller, i,
                               StartRaise(
                                 [StartRecord(i, TRUE, 2, task[t].cid,
                                              task[t].sawExited, h)
                                    EXCEPT !.reloads = a],
                                 IF container[i] = 0 THEN NoContainerMsg
                                 ELSE NotReadyMsg))
            /\ task' = [task EXCEPT ![t] = IdleTask]
            /\ life' = [life EXCEPT ![i] = "start_failed"]
            /\ UNCHANGED <<rcon_client, nstarts, instance_id>>
       ELSE /\ \E rep \in Reports :
                 LET w == wait_for_ready(Cur, i, rep) IN
                 /\ task' = [task EXCEPT ![t].attempt = a,
                                         ![t].pc = IF w.next = "ready"
                                                   THEN "grace_sleep" ELSE "poll_sleep",
                                         ![t].sawExited = task[t].sawExited \/ w.exited]
                 /\ last' = Polled(i, Reload(Cur, container[i], rep), a + 1)
            /\ UNCHANGED <<container, docker_client, initialized, rcon_client,
                           cstate, nstarts, life, instance_id, block>>

(* start() resumes from the grace sleep asyncio.sleep(2) and returns.     *)
StartFinish(t) ==
    /\ task[t].pc = "grace_sleep"
    /\ LET i == task[t].inst IN
         /\ Commit(MarkInitialized(Cur, i))
         /\ task' = [task EXCEPT ![t] = IdleTask]
         /\ Completed(task[t].caller, i,
                      [StartRecord(i, FALSE, 2, task[t].cid, task[t].sawExited,
                                   NoHandler)
                         EXCEPT !.reloads = task[t].attempt + 1])
         /\ life' = [life EXCEPT ![i] = "running"]
         /\ UNCHANGED <<rcon_client, nstarts, instance_id>>

(* ------------------- FactorioInstance.start: ports -------------------- *)
(* Variant: the remainder takes the sign of the dividend, as in C. *)
PyMod_Truncating(a, n) == IF a >= 0 THEN a % n ELSE 0 - ((0 - a) % n)

(* Python's a % n for n > 0: the result is in 0..n-1 for every a.         *)
PyMod(a, n) == a - n * (a \div n)

(* Variant: the offset is taken modulo the configured port_range. *)
PortOffset_PortRange(h) == PyMod(h, 100)

(* hash(self.instance_id) % 1000, lines 41-42; h is hash(instance_id).    *)
PortOffset(h) == PyMod(h, PortSpan)

game_port(base_port, h) == base_port + PortOffset(h)
rcon_port(base_rcon_port, h) == base_rcon_port + PortOffset(h)

(* The values hash() of a str can take (never -1), cut to a few: around   *)
(* the multiples of 1000, and two of large magnitude.                     *)
HashValues ==
    {-1000000001, -2001, -1001, -1000, -999, -2, 0, 1, 101, 999, 1000, 1001,
     1000000999}
BasePorts == {34197, 1024}
RconPorts == {27015, 34197}
InstanceIds == {"task-1", "task-2"}

(* Two instances with different ids are built on one configuration and    *)
(* each start() computes its two host ports; hash: the hash function of   *)
(* this process on the two ids.                                           *)
StartPorts ==
    \E bp \in BasePorts, rp \in RconPorts, hash \in [InstanceIds -> HashValues] :
        LET ids == <<"task-1", "task-2">> IN
        /\ last' = [NoOp EXCEPT
                      !.op = "start_ports",
                      !.net = [base_port |-> bp, rcon_port |-> rp, ids |-> ids,
                               hashes |-> [k \in 1..2 |-> hash[ids[k]]],
                               ports |-> [k \in 1..2 |->
                                   [game |-> game_port(bp, hash[ids[k]]),
                                    rcon |-> rcon_port(rp, hash[ids[k]])]]]]
        /\ UNCHANGED <<container, docker_client, initialized, rcon_client,
                       instance_id, block, cstate, nstarts, task, life>>

(* ------------------ FactorioInstance.execute_python_code -------------- *)
(* The method is a stub: every call raises NotImplementedError.           *)
execute_python_code(S, i, code, timeout) ==
    [raised |-> TRUE, type |-> "NotImplementedError", msg |-> NotImplementedMsg,
     text |-> ""]

ExecutePythonCode(i) ==
    \E code \in {"print(40+2)"}, timeout \in {"None"} :
        LET r == execute_python_code(Cur, i, code, timeout) IN
        /\ last' = [NoOp EXCEPT !.op = "execute_python_code", !.inst = i,
                                !.pre = Fields(Cur, i), !.raised = r.raised,
                                !.exc = [type |-> r.type, msg |-> r.msg]]
        /\ UNCHANGED <<container, docker_client, initialized, rcon_client,
                       instance_id, block, cstate, nstarts, task, life>>

(* A caller assigns a connected remote command channel to the attribute   *)
(* rcon_client of the instance, as test_stop_disconnects_rcon does; no    *)
(* method of the class reads or writes that attribute.                    *)
AttachChannel(i) ==
    /\ rcon_client[i] = "absent"
    /\ rcon_client' = [rcon_client EXCEPT ![i] = "open"]
    /\ last' = [NoOp EXCEPT !.op = "attach_channel", !.inst = i,
                            !.pre = Fields(Cur, i)]
    /\ UNCHANGED <<container, docker_client, initialized, instance_id, block,
                   cstate, nstarts, task, life>>

(* The operations of FactorioInstance that are stubs, lines 121-139 and   *)
(* 153-156: each raises NotImplementedError and touches no attribute.     *)
StubMethods ==
    {"execute_tool", "get_game_state", "reset_game_state", "health_check", "get_logs"}
StubNames == StubMethods \cup {"connection_info"}

stub(S, i, name) ==
    [S |-> S, raised |-> TRUE,
     exc |-> [type |-> "NotImplementedError",
              msg |-> name \o (IF name \in StubMethods THEN " method"
                               ELSE " property") \o " not implemented yet"]]

Stub(i) ==
    \E name \in StubNames :
        LET r == stub(Cur, i, name) IN
        /\ Commit(r.S)
        /\ last' = [NoOp EXCEPT !.op = name, !.inst = i, !.pre = Fields(Cur, i),
                                !.raised = r.raised, !.exc = r.exc]
        /\ UNCHANGED <<rcon_client, instance_id, block, nstarts, task, life>>

(* -------------------- FactorioSandboxEnvironment.exec ----------------- *)
(* Python's `x or d`: d replaces every falsy x, None and zero alike.      *)
FalsyTimeouts == {"None", "0"}
TimeoutOr(timeout, d) == IF timeout \in FalsyTimeouts THEN d ELSE timeout

FalsyEnvs == {"None", "{}"}
EnvOr(env) == IF env \in FalsyEnvs THEN "{}" ELSE env

(* Variant: the dispatch also asks for the script text. *)
IsPythonCmd_NeedsCode(cmd) == Len(cmd) >= 3 /\ cmd[1] = "python" /\ cmd[2] = "-c"

(* Variant: the second token is not compared. *)
IsPythonCmd_FirstTokenOnly(cmd) == Len(cmd) >= 2 /\ cmd[1] = "python"

(* Dispatch condition of exec(), line 37. *)
IsPythonCmd(cmd) == Len(cmd) >= 2 /\ cmd[1] = "python" /\ cmd[2] = "-c"

Failure(msg) == [success |-> FALSE, returncode |-> 1, stdout |-> "", stderr |-> msg]

(* Variant: the handler answers with the not-running failure. *)
ExecFailure_NotRunning(msg) == Failure(NotRunningMsg)

(* except-block of exec(), lines 87-93: the failure result built around   *)
(* the message of the exception.                                          *)
ExecFailure(msg) == Failure(ExecFailedPrefix \o msg)

(* rep: the engine's answer to the status query of is_running;            *)
(* runOut: what container.exec_run does (raises, or exit code and output, *)
(* whose bytes decode as UTF-8 or not).                                   *)
(* The body of exec() in terms of what self.instance answers: live, the  *)
(* value of its is_running; c, its container attribute (0: None); pyOut,  *)
(* what its execute_python_code does.                                     *)
exec_body(live, c, pyOut, cmd, timeout, cwd, env, runOut) ==
    LET base == [live |-> live.ret, calls |-> live.calls, raised |-> FALSE,
                 result |-> NoResult, py |-> NoPy, run |-> NoRun]
    IN
    IF ~live.ret
    THEN [base EXCEPT !.result = Failure(NotRunningMsg)]
    ELSE IF IsPythonCmd(cmd)
    THEN IF Len(cmd) < 3
         THEN [base EXCEPT !.result = Failure(NoCodeMsg)]
         ELSE LET t == TimeoutOr(timeout, DefaultTimeout)
                  out == pyOut
              IN [base EXCEPT
                    !.py = [called |-> TRUE, code |-> cmd[3], timeout |-> t],
                    !.result = IF out.raised THEN Failure(out.msg)
                               ELSE [success |-> TRUE, returncode |-> 0,
                                     stdout |-> out.text, stderr |-> ""]]
    ELSE IF c = 0
    THEN [base EXCEPT !.result = ExecFailure(NoContainerMsg)]
    ELSE [base EXCEPT
            !.calls = live.calls + 1,
            !.run = [called |-> TRUE, container |-> c, cmd |-> cmd,
                     workdir |-> cwd, environment |-> EnvOr(env)],
            !.result = IF runOut.raised \/ ~runOut.utf8
                       THEN ExecFailure(runOut.msg)
                       ELSE [success |-> (runOut.exit_code = 0),
                             returncode |-> runOut.exit_code,
                             stdout |-> runOut.output, stderr |-> ""]]

(* exec() of an environment that wraps FactorioInstance i.               *)
exec(S, i, cmd, timeout, cwd, env, rep, runOut) ==
    exec_body(is_running(S, i, rep), S.container[i],
              execute_python_code(S, i, IF Len(cmd) >= 3 THEN cmd[3] ELSE "",
                                  TimeoutOr(timeout, DefaultTimeout)),
              cmd, timeout, cwd, env, runOut)

Cmds ==
    {<<"python", "-c", "print(40+2)">>, <<"python", "-c">>,
     <<"python", "-m", "site">>, <<"echo", "hi">>, <<>>}
Timeouts == {"None", "0", "5.0"}
Cwds == {"None", "/opt"}
Envs == {"None", "{A=1}"}
RunOutcomes ==
    {[raised |-> TRUE, msg |-> EngineErrMsg, exit_code |-> 0, output |-> "", utf8 |-> TRUE],
     [raised |-> FALSE, msg |-> "", exit_code |-> 0, output |-> "hi", utf8 |-> TRUE],
     [raised |-> FALSE, msg |-> "", exit_code |-> 2, output |-> "no", utf8 |-> TRUE],
     [raised |-> FALSE, msg |-> "invalid start byte", exit_code |-> 0,
      output |-> "", utf8 |-> FALSE]}

(* The inputs an exec() call does not read on the path it takes are left  *)
(* at their defaults.                                                     *)
Exec(i) ==
    \E cmd \in Cmds,
       rep \in (IF initialized[i] /\ container[i] # 0 THEN Reports ELSE {"error"}) :
    \E timeout \in (IF IsPythonCmd(cmd) /\ rep = "running" THEN Timeouts ELSE {"None"}),
       cwd \in (IF ~IsPythonCmd(cmd) /\ rep = "running" THEN Cwds ELSE {"None"}),
       env \in (IF ~IsPythonCmd(cmd) /\ rep = "running" THEN Envs ELSE {"None"}),
       runOut \in (IF ~IsPythonCmd(cmd) /\ rep = "running" THEN RunOutcomes
                   ELSE {CHOOSE o \in RunOutcomes : o.raised}) :
        LET r == exec(Cur, i, cmd, timeout, cwd, env, rep, runOut) IN
        /\ last' = [NoOp EXCEPT !.op = "exec", !.inst = i, !.pre = Fields(Cur, i),
                                !.raised = r.raised, !.calls = r.calls,
                                !.ret = r.live, !.rep = rep,
                                !.result = r.result, !.py = r.py, !.run = r.run,
                                !.arg = cmd, !.timeout = timeout,
                                !.cwd = cwd, !.env = env,
                                !.ran = IF r.run.called THEN runOut ELSE NoRan]
        /\ UNCHANGED <<container, docker_client, initialized, rcon_client, instance_id, block,
                       cstate, nstarts, task, life>>

(* -------------- FactorioSandboxEnvironment.sample_cleanup ------------- *)
(* One iteration of the loop: the stop() of one environment inside its    *)
(* try/except.  acc.raised: an exception is propagating out of the loop,  *)
(* which ends it.  acc.log: the order of events; `await` hands control to  *)
(* the stop() of environment i ("issue") and the iteration goes on only   *)
(* when that stop() has returned or raised ("done").                      *)
(* Variant: the stop() is not wrapped in try/except. *)
sample_cleanup_step_NoCatch(acc, i, o, f) ==
    IF acc.raised THEN acc
    ELSE LET r == stop(acc.S, i, o, f) IN
         [S |-> r.S,
          stops |-> [acc.stops EXCEPT ![i] = acc.stops[i] + 1],
          log |-> acc.log \o << <<"issue", i>>, <<"done", i>> >>,
          failures |-> acc.failures + (IF r.raised THEN 1 ELSE 0),
          raised |-> r.raised]

sample_cleanup_step(acc, i, o, f) ==
    IF acc.raised THEN acc
    ELSE LET r == stop(acc.S, i, o, f) IN
         [S |-> r.S,
          stops |-> [acc.stops EXCEPT ![i] = acc.stops[i] + 1],
          log |-> acc.log \o << <<"issue", i>>, <<"done", i>> >>,
          failures |-> acc.failures + (IF r.raised THEN 1 ELSE 0),
          raised |-> FALSE]

(* The loop over the environments, in the insertion order of the dict;    *)
(* ins[k]: the outcomes of the engine calls of the k-th stop().           *)
RECURSIVE sample_cleanup_loop(_, _, _, _)
sample_cleanup_loop(acc, items, ins, k) ==
    IF k > Len(items) THEN acc
    ELSE sample_cleanup_loop(
            sample_cleanup_step(acc, items[k], ins[k][1], ins[k][2]),
            items, ins, k + 1)

sample_cleanup(S, environments, ins) ==
    LET acc0 == [S |-> S, stops |-> [j \in Insts |-> 0], log |-> <<>>,
                 failures |-> 0, raised |-> FALSE]
    IN IF environments.isNone \/ environments.items = <<>>
       THEN acc0
       ELSE sample_cleanup_loop(acc0, environments.items, ins, 1)

(* The outcomes the engine calls of the stop() of instance i can have: a  *)
(* no-op stop() has one, and which call of the graceful path raised makes *)
(* no difference to the loop.                                             *)
AllStopInputs == {<<"ok", TRUE>>, <<"stop_fails", TRUE>>, <<"stop_fails", FALSE>>}
StopInputs(i) ==
    IF initialized[i] /\ container[i] # 0 THEN AllStopInputs ELSE {<<"ok", TRUE>>}

(* The environments argument: None, or a dict whose values, in insertion  *)
(* order, wrap distinct instances.                                        *)
Injective(q) == \A a, b \in 1..Len(q) : q[a] = q[b] => a = b
EnvDicts ==
    {[isNone |-> TRUE, items |-> <<>>]} \cup
    {[isNone |-> FALSE, items |-> q] :
        q \in {x \in UNION {[1..n -> Insts] : n \in 0..NumInst} : Injective(x)}}

SampleCleanup ==
    \E environments \in EnvDicts :
    \E ins \in [1..Len(environments.items) -> AllStopInputs] :
        /\ \A k \in 1..Len(environments.items) :
               ins[k] \in StopInputs(environments.items[k])
        /\ LET r == sample_cleanup(Cur, environments, ins) IN
           /\ Commit(r.S)
           /\ life' = [j \in Insts |->
                         IF r.stops[j] > 0 /\ initialized[j] /\ container[j] # 0
                         THEN "stopped" ELSE life[j]]
           /\ last' = [NoOp EXCEPT !.op = "sample_cleanup", !.raised = r.raised,
                                   !.arg = environments.items,
                                   !.isNone = environments.isNone,
                                   !.stops = r.stops, !.failures = r.failures,
                                   !.log = r.log]
           /\ UNCHANGED <<rcon_client, instance_id, block, nstarts, task>>

(* exec() of an environment that wraps a stand-in for the instance, as    *)
(* the tests build it: is_running, container and execute_python_code are  *)
(* attributes the caller sets freely.                                     *)
PyOutcomes ==
    {[raised |-> FALSE, type |-> "", msg |-> "", text |-> "42"],
     [raised |-> TRUE, type |-> "RuntimeError", msg |-> "Python execution failed",
      text |-> ""]}

ExecOnDouble ==
    \E running \in BOOLEAN, c \in {0, 1}, cmd \in Cmds :
    \E pyOut \in (IF IsPythonCmd(cmd) /\ running THEN PyOutcomes
                  ELSE {CHOOSE o \in PyOutcomes : o.raised}),
       runOut \in (IF ~IsPythonCmd(cmd) /\ running /\ c # 0 THEN RunOutcomes
                   ELSE {CHOOSE o \in RunOutcomes : o.raised}) :
        LET r == exec_body([ret |-> running, calls |-> 0, raised |-> FALSE], c,
                           pyOut, cmd, "None", "None", "None", runOut)
        IN
        /\ last' = [NoOp EXCEPT !.op = "exec_double",
                                !.pre = [container |-> c, docker_client |-> 0,
                                         initialized |-> running],
                                !.raised = r.raised, !.ret = r.live,
                                !.result = r.result, !.py = r.py, !.run = r.run,
                                !.arg = cmd]
        /\ UNCHANGED <<container, docker_client, initialized, rcon_client,
                       instance_id, block, cstate, nstarts, task, life>>

(* ------------ FactorioSandboxEnvironment.write_file / read_file ------- *)
FileIOMsg ==
    "File I/O operations are not supported in Factorio game environments. " \o
    "Use Python code execution instead to interact with the game world."

(* Variant: the write is silently dropped. *)
write_file_Silent(S, i, file, contents) == [S |-> S, raised |-> FALSE, exc |-> NoExc]

write_file(S, i, file, contents) ==
    [S |-> S, raised |-> TRUE,
     exc |-> [type |-> "NotImplementedError", msg |-> FileIOMsg]]

read_file(S, i, file, text) ==
    [S |-> S, raised |-> TRUE,
     exc |-> [type |-> "NotImplementedError", msg |-> FileIOMsg]]

Files == {"", "save.zip"}
Contents == {"", "x"}

WriteFile(i) ==
    \E file \in Files, contents \in Contents :
        LET r == write_file(Cur, i, file, contents) IN
        /\ Commit(r.S)
        /\ last' = [NoOp EXCEPT !.op = "write_file", !.inst = i,
                                !.pre = Fields(Cur, i), !.raised = r.raised,
                                !.exc = r.exc, !.arg = <<file>>]
        /\ UNCHANGED <<rcon_client, instance_id, block, nstarts, task, life>>

ReadFile(i) ==
    \E file \in Files, text \in BOOLEAN :
        LET r == read_file(Cur, i, file, text) IN
        /\ Commit(r.S)
        /\ last' = [NoOp EXCEPT !.op = "read_file", !.inst = i,
                                !.pre = Fields(Cur, i), !.raised = r.raised,
                                !.exc = r.exc, !.arg = <<file>>]
        /\ UNCHANGED <<rcon_client, instance_id, block, nstarts, task, life>>

(* -------- FactorioSandboxEnvironment.task_init / task_cleanup --------- *)
(* Both bodies are `pass`: lines 131-144 and 220-238.                     *)
task_init(S) == [S |-> S, raised |-> FALSE]
task_cleanup(S, cleanup) == [S |-> S, raised |-> FALSE]

TaskInit ==
    LET r == task_init(Cur) IN
    /\ Commit(r.S)
    /\ last' = [NoOp EXCEPT !.op = "task_init", !.raised = r.raised]
    /\ UNCHANGED <<rcon_client, instance_id, block, nstarts, task, life>>

TaskCleanup ==
    \E cleanup \in BOOLEAN :
        LET r == task_cleanup(Cur, cleanup) IN
        /\ Commit(r.S)
        /\ last' = [NoOp EXCEPT !.op = "task_cleanup", !.raised = r.raised,
                                !.isNone = ~cleanup]
        /\ UNCHANGED <<rcon_client, instance_id, block, nstarts, task, life>>

(* --------------- FactorioSandboxEnvironment.sample_init --------------- *)
(* The millisecond timestamps time.time() can give; the call has one      *)
(* task_name, so the timestamp is what tells instance ids apart.          *)
Stamps == {1, 2}

(* sample_init up to the first suspension of its start(): lines 173-178.  *)
(* i: the FactorioInstance it constructs, an object nothing has used yet. *)
SampleInitBegin(t, i, ts) ==
    /\ life[i] = "never_started"
    /\ instance_id[i] = 0
    /\ instance_id' = [instance_id EXCEPT ![i] = ts]
    /\ StartBeginAs(t, i, "sample_init")

(* -------------- FactorioInstance.__aenter__ / __aexit__ --------------- *)
AEnterBegin(t, i) ==
    /\ ~block[i]
    /\ StartBeginAs(t, i, "aenter")
    /\ UNCHANGED instance_id

(* __aexit__, lines 163-165: awaits stop() and lets its fault through.    *)
aexit(S, i, o, f) ==
    LET r == stop(S, i, o, f) IN
    [S |-> r.S, raised |-> r.raised, calls |-> r.calls, stops |-> 1]

AExit(i) ==
    /\ block[i]
    /\ \E o \in StopOutcomes, f \in BOOLEAN :
        LET r == aexit(Cur, i, o, f) IN
        /\ Commit(r.S)
        /\ life' = IF initialized[i] /\ container[i] # 0
                   THEN [life EXCEPT ![i] = "stopped"] ELSE life
        /\ last' = [NoOp EXCEPT !.op = "aexit", !.inst = i,
                                !.pre = Fields(Cur, i),
                                !.raised = r.raised, !.calls = r.calls,
                                !.stops = [j \in Insts |-> IF j = i THEN r.stops ELSE 0]]
    /\ block' = [block EXCEPT ![i] = FALSE]
    /\ UNCHANGED <<rcon_client, instance_id, nstarts, task>>

(* The owner has the result of the call it awaited and goes on.           *)
Return ==
    /\ Quiescent
    /\ last.op # "none"
    /\ last' = NoOp
    /\ UNCHANGED <<container, docker_client, initialized, rcon_client, instance_id, block, cstate,
                   nstarts, task, life>>

(* The owner is free to issue a call.                                     *)
Ready == Quiescent /\ last.op = "none"

(* The calls of an owner that awaits every call, the use the lifecycle    *)
(* contract asks for: a call begins only when no start() is suspended in  *)
(* its readiness polling.                                                 *)
OwnerStart(t, i) == Ready /\ StartBegin(t, i)
OwnerStop(i) == Ready /\ Stop(i)
OwnerIsRunning(i) == Ready /\ IsRunning(i)
OwnerExec(i) == Ready /\ Exec(i)
OwnerSampleCleanup == Ready /\ SampleCleanup
OwnerSampleInit(t, i, ts) == Ready /\ SampleInitBegin(t, i, ts)
OwnerAEnter(t, i) == Ready /\ AEnterBegin(t, i)
OwnerAExit(i) == Ready /\ AExit(i)
OwnerExecutePythonCode(i) == Ready /\ ExecutePythonCode(i)
OwnerExecOnDouble == Ready /\ ExecOnDouble
OwnerWriteFile(i) == Ready /\ WriteFile(i)
OwnerReadFile(i) == Ready /\ ReadFile(i)
OwnerAttachChannel(i) == Ready /\ AttachChannel(i)
OwnerStub(i) == Ready /\ Stub(i)
OwnerStartPorts == Ready /\ StartPorts
OwnerTaskInit == Ready /\ TaskInit
OwnerTaskCleanup == Ready /\ TaskCleanup

(* The owner calls start() on an instance it has not stopped since its    *)
(* last start(), and on one it has.                                       *)
OwnerFirstStart(t, i) == Ready /\ life[i] # "stopped" /\ StartBegin(t, i)
OwnerStartAgain(t, i) ==
    /\ Ready
    /\ life[i] = "stopped"
    /\ StartBeginAs(t, i, "start_again")
    /\ UNCHANGED instance_id

Next ==
    \/ \E t \in Tasks, i \in Insts : OwnerStart(t, i)
    \/ \E t \in Tasks : StartPoll(t)
    \/ \E t \in Tasks : StartFinish(t)
    \/ \E i \in Insts : OwnerStop(i)
    \/ \E i \in Insts : OwnerIsRunning(i)
    \/ \E i \in Insts : OwnerExec(i)
    \/ OwnerSampleCleanup
    \/ \E i \in Insts : OwnerExecutePythonCode(i)
    \/ OwnerExecOnDouble
    \/ \E i \in Insts : OwnerWriteFile(i)
    \/ \E i \in Insts : OwnerReadFile(i)
    \/ Return

Spec == Init /\ [][Next]_vars

(* The life of a sample: sample_init builds the instance, the sample      *)
(* uses the returned environment, sample_cleanup stops it.                *)
NextSample ==
    \/ \E t \in Tasks, i \in Insts, ts \in Stamps : OwnerSampleInit(t, i, ts)
    \/ \E t \in Tasks : StartPoll(t)
    \/ \E t \in Tasks : StartFinish(t)
    \/ \E i \in Insts : OwnerIsRunning(i)
    \/ \E i \in Insts : OwnerExec(i)
    \/ OwnerSampleCleanup
    \/ Return

SpecSample == Init /\ [][NextSample]_vars

(* An owner that uses its instances through `async with`, and may call    *)
(* start(), stop() and is_running inside and outside the blocks.          *)
NextContext ==
    \/ \E t \in Tasks, i \in Insts : OwnerAEnter(t, i)
    \/ \E t \in Tasks : StartPoll(t)
    \/ \E t \in Tasks : StartFinish(t)
    \/ \E i \in Insts : OwnerAExit(i)
    \/ \E t \in Tasks, i \in Insts : OwnerStart(t, i)
    \/ \E i \in Insts : OwnerStop(i)
    \/ \E i \in Insts : OwnerIsRunning(i)
    \/ Return

SpecContext == Init /\ [][NextContext]_vars

(* Samples run concurrently (default_concurrency): sample_init calls      *)
(* overlap, each suspended in the readiness polling of its own start().   *)
NextConcurrent ==
    \/ \E t \in Tasks, i \in Insts, ts \in Stamps : SampleInitBegin(t, i, ts)
    \/ \E t \in Tasks : StartPoll(t)
    \/ \E t \in Tasks : StartFinish(t)

SpecConcurrent == Init /\ [][NextConcurrent]_vars

(* An owner that uses every operation of the instance and of its         *)
(* environment, the task hooks and the stubs included.                    *)
NextFrame ==
    \/ \E t \in Tasks, i \in Insts : OwnerStart(t, i)
    \/ \E t \in Tasks : StartPoll(t)
    \/ \E t \in Tasks : StartFinish(t)
    \/ \E i \in Insts : OwnerStop(i)
    \/ \E i \in Insts : OwnerIsRunning(i)
    \/ \E i \in Insts : OwnerExec(i)
    \/ \E i \in Insts : OwnerWriteFile(i)
    \/ \E i \in Insts : OwnerReadFile(i)
    \/ \E i \in Insts : OwnerStub(i)
    \/ OwnerTaskInit
    \/ OwnerTaskCleanup
    \/ OwnerSampleCleanup
    \/ Return

SpecFrame == Init /\ [][NextFrame]_vars

(* The port computation of start(), over configurations and hashes.      *)
NextPorts ==
    \/ OwnerStartPorts
    \/ Return

SpecPorts == Init /\ [][NextPorts]_vars

(* An owner that starts, stops and starts its instances again.            *)
NextRestart ==
    \/ \E t \in Tasks, i \in Insts : OwnerFirstStart(t, i)
    \/ \E t \in Tasks, i \in Insts : OwnerStartAgain(t, i)
    \/ \E t \in Tasks : StartPoll(t)
    \/ \E t \in Tasks : StartFinish(t)
    \/ \E i \in Insts : OwnerStop(i)
    \/ \E i \in Insts : OwnerIsRunning(i)
    \/ Return

SpecRestart == Init /\ [][NextRestart]_vars

(* start() alone, under the scheduling of the asyncio event loop: a       *)
(* coroutine suspended in asyncio.sleep is resumed when its delay has     *)
(* passed, so a suspended start() eventually takes its next step.         *)
NextStarts ==
    \/ \E t \in Tasks, i \in Insts : OwnerStart(t, i)
    \/ \E t \in Tasks : StartPoll(t)
    \/ \E t \in Tasks : StartFinish(t)
    \/ Return

SpecStartFair ==
    /\ Init
    /\ [][NextStarts]_vars
    /\ WF_vars(\E t \in Tasks : StartPoll(t))
    /\ WF_vars(\E t \in Tasks : StartFinish(t))

(* An owner that hands its instance a remote command channel and then    *)
(* runs code on it and stops it.                                          *)
NextChannel ==
    \/ \E t \in Tasks, i \in Insts : OwnerStart(t, i)
    \/ \E t \in Tasks : StartPoll(t)
    \/ \E t \in Tasks : StartFinish(t)
    \/ \E i \in Insts : OwnerAttachChannel(i)
    \/ \E i \in Insts : OwnerExecutePythonCode(i)
    \/ \E i \in Insts : OwnerStop(i)
    \/ Return

SpecChannel == Init /\ [][NextChannel]_vars

(* Owners of distinct instances run concurrently (asyncio.gather over     *)
(* start, exec and stop, one coroutine per instance): a call on an        *)
(* instance begins while start() calls of other instances are suspended   *)
(* in their readiness polling.  Each instance has one owner, which awaits *)
(* its own calls: no call begins on an instance whose start() is in       *)
(* flight.                                                                *)
Busy(i) == \E t \in Tasks : task[t].pc # "idle" /\ task[t].inst = i

(* The result of the last completed call has been taken by its caller.    *)
Taken == last.op \in {"none", "start_step"}

ConcStart(t, i) == Taken /\ ~Busy(i) /\ StartBegin(t, i)
ConcExec(i) == Taken /\ ~Busy(i) /\ Exec(i)
ConcStop(i) == Taken /\ ~Busy(i) /\ Stop(i)

(* The caller of the call that has just completed takes its result, while *)
(* start() calls of other instances may still be suspended.               *)
Take ==
    /\ ~Taken
    /\ last' = NoOp
    /\ UNCHANGED <<container, docker_client, initialized, rcon_client, instance_id,
                   block, cstate, nstarts, task, life>>

NextIsolation ==
    \/ \E t \in Tasks, i \in Insts : ConcStart(t, i)
    \/ \E t \in Tasks : StartPoll(t)
    \/ \E t \in Tasks : StartFinish(t)
    \/ \E i \in Insts : ConcExec(i)
    \/ \E i \in Insts : ConcStop(i)
    \/ Take

SpecIsolation == Init /\ [][NextIsolation]_vars

(* stop() issued by another coroutine at any moment, also while a start() *)
(* of the same instance is suspended in its readiness polling (stop has   *)
(* no suspension point of its own: it runs to its end in one step).       *)
AnyStop(i) == Taken /\ Stop(i)

NextMidStart ==
    \/ \E t \in Tasks, i \in Insts : ConcStart(t, i)
    \/ \E t \in Tasks : StartPoll(t)
    \/ \E t \in Tasks : StartFinish(t)
    \/ \E i \in Insts : AnyStop(i)
    \/ Take

SpecMidStart == Init /\ [][NextMidStart]_vars

(* start() calls on one and the same instance, issued by coroutines that  *)
(* do not wait for each other: a start() may begin while an earlier one   *)
(* is suspended in its readiness polling or its grace sleep.              *)
Shared == CHOOSE i \in Insts : TRUE

OverlapStart(t) == Taken /\ StartBegin(t, Shared)

NextOverlap ==
    \/ \E t \in Tasks : OverlapStart(t)
    \/ \E t \in Tasks : StartPoll(t)
    \/ \E t \in Tasks : StartFinish(t)
    \/ Take

SpecOverlap == Init /\ [][NextOverlap]_vars

(* ============================== properties ============================ *)
(* The record `last` describes the call that has just completed; `pre` is *)
(* the state of its instance before the step that completed it.           *)

(* is_running of the instance of the last call, asked now, for the answer *)
(* rep of the engine.                                                     *)
RunningNow(rep) == is_running(Cur, last.inst, rep).ret
NeverRunningNow == \A rep \in Reports : ~RunningNow(rep)

(* The instance of the last exec() was live: initialized, holding a       *)
(* container the engine knows and reports as running.                     *)
WasLive ==
    /\ last.pre.initialized
    /\ last.pre.container # 0
    /\ cstate[last.pre.container] = "present"
    /\ last.rep = "running"

HasScriptPrefix(cmd) == Len(cmd) >= 2 /\ SubSeq(cmd, 1, 2) = <<"python", "-c">>

(* C1: when start() has returned normally and the engine reports the      *)
(* container as running, is_running asked right then returns true.        *)
C1_StartThenIsRunning ==
    (last.op = "start" /\ ~last.raised) => RunningNow("running")

C1_Witness == last.op = "start" /\ ~last.raised /\ last.cid # 0

(* C2: stop() on an instance that is not initialized (never started, or   *)
(* already stopped) makes no engine call, raises nothing, changes no      *)
(* field, and is_running is false afterwards.                             *)
C2_StopIdempotent ==
    (last.op = "stop" /\ ~last.pre.initialized) =>
        /\ last.calls = 0
        /\ ~last.raised
        /\ Fields(Cur, last.inst) = last.pre
        /\ NeverRunningNow

C2_Witness ==
    last.op = "stop" /\ ~last.pre.initialized /\ life[last.inst] = "stopped"

(* C3: start() on an initialized instance returns without an engine call, *)
(* creates no container and leaves container, docker_client and the       *)
(* initialized flag as they were.                                         *)
C3_StartIdempotent ==
    (last.op = "start" /\ last.pre.initialized) =>
        /\ ~last.raised
        /\ last.calls = 0
        /\ last.cid = 0
        /\ Fields(Cur, last.inst) = last.pre

C3_Witness == last.op = "start" /\ last.pre.initialized /\ ~last.raised

(* C4: after stop() on a started instance is_running is false, container, *)
(* docker_client and the channel handle are cleared and the instance is   *)
(* not initialized.                                                       *)
C4_StartStopClearsHandles ==
    (last.op = "stop" /\ last.pre.initialized) =>
        /\ NeverRunningNow
        /\ container[last.inst] = 0
        /\ docker_client[last.inst] = 0
        /\ rcon_client[last.inst] # "open"
        /\ ~initialized[last.inst]

C6_ExitedFailsStart ==
    (last.op = "start" /\ last.sawExited) =>
        /\ last.raised
        /\ cstate[last.cid] = "removed"

(* C7: exec() on an instance that is not live returns the not-running     *)
(* failure for every command, calls neither execute_python_code nor       *)
(* exec_run, and on a not-initialized instance makes no engine call.      *)
C7_ExecNotLive ==
    (last.op = "exec" /\ ~WasLive) =>
        /\ last.result = [success |-> FALSE, returncode |-> 1, stdout |-> "",
                          stderr |-> "Factorio instance is not running"]
        /\ ~last.raised
        /\ ~last.py.called
        /\ ~last.run.called
        /\ ~last.pre.initialized => last.calls = 0

C7_Witness ==
    /\ last.op = "exec" /\ ~WasLive
    /\ last.arg = <<"echo", "hi">>
    /\ life[last.inst] = "never_started"

(* C8: on a live instance a command with the prefix "python", "-c" never  *)
(* reaches exec_run, and any other command never reaches                  *)
(* execute_python_code.                                                   *)
C8_DispatchExclusive ==
    (last.op = "exec" /\ WasLive) =>
        /\ HasScriptPrefix(last.arg) => ~last.run.called
        /\ ~HasScriptPrefix(last.arg) => ~last.py.called

C8_Witness ==
    /\ last.op = "exec" /\ WasLive
    /\ last.arg = <<"python", "-m", "site">>
    /\ last.run.called

(* C9: on a live instance exec(["python","-c",code], timeout=t) calls     *)
(* execute_python_code once with (code, t) when t is supplied and with    *)
(* (code, 30.0) when it is absent, and turns its return or its exception  *)
(* into a result without raising.                                         *)
C9_PythonPath ==
    (last.op = "exec" /\ WasLive /\ HasScriptPrefix(last.arg) /\ Len(last.arg) >= 3) =>
        /\ last.py.called
        /\ last.py.code = last.arg[3]
        /\ last.py.timeout = (IF last.timeout = "None" THEN "30.0" ELSE last.timeout)
        /\ ~last.raised
        /\ \/ last.result.success /\ last.result.returncode = 0
                                  /\ last.result.stderr = ""
           \/ ~last.result.success /\ last.result.returncode = 1
                                   /\ last.result.stdout = ""

C12_ConcurrentInitDistinct ==
    \A t, u \in Tasks :
        (/\ t # u
         /\ task[t].pc # "idle" /\ task[t].caller = "sample_init"
         /\ task[u].pc # "idle" /\ task[u].caller = "sample_init") =>
            /\ instance_id[task[t].inst] # instance_id[task[u].inst]
            /\ container[task[t].inst] # container[task[u].inst]
            /\ rcon_client[task[t].inst] = "absent"

(* C13: sample_init returns {"sandbox": env} around a live instance; exec *)
(* of ["python","-c","print(40+2)"] on it succeeds with the produced text *)
(* "42" as stdout; sample_cleanup of the mapping leaves the instance not  *)
(* running.                                                               *)
C13_EndToEnd ==
    /\ (last.op = "start" /\ last.caller = "sample_init" /\ ~last.callerRaised) =>
           (last.envs = <<last.inst>> /\ RunningNow("running"))
    /\ (/\ last.op = "exec" /\ WasLive /\ instance_id[last.inst] # 0
        /\ last.arg = <<"python", "-c", "print(40+2)">>) =>
           (last.result.success /\ last.result.stdout = "42")
    /\ last.op = "sample_cleanup" =>
           \A k \in 1..Len(last.arg) :
               \A rep \in Reports : ~is_running(Cur, last.arg[k], rep).ret

(* C14: execute_python_code on an instance that is not started raises the *)
(* not-running RuntimeError and opens no remote channel.                  *)
C14_ExecuteCodeNotRunning ==
    (last.op = "execute_python_code" /\ ~last.pre.initialized) =>
        /\ last.raised
        /\ last.exc = [type |-> "RuntimeError", msg |-> "Factorio instance is not running"]
        /\ rcon_client[last.inst] = "absent"

(* C15: exec on the direct path of an instance that reports live but has  *)
(* no container handle raises to its caller.                              *)
C15_NoContainerRaises ==
    (/\ last.op \in {"exec", "exec_double"}
     /\ last.ret /\ ~HasScriptPrefix(last.arg)
     /\ last.pre.container = 0) => last.raised

(* C16: after stop() on an initialized instance, on every path, the       *)
(* container handle is null, the instance is not initialized and the      *)
(* engine client has been closed and set to null.                         *)
C16_StopClearsOnEveryPath ==
    (last.op = "stop" /\ last.pre.initialized /\ last.pre.container # 0) =>
        /\ container[last.inst] = 0
        /\ ~initialized[last.inst]
        /\ last.closedClient = last.pre.docker_client
        /\ docker_client[last.inst] = 0

(* C17 as stated: in every state, is_running of an instance is true      *)
(* exactly when its container handle is non-null and the engine reports   *)
(* the container as running.                                              *)
C17_LiveIffContainerRunning ==
    \A i \in Insts, rep \in Reports :
        is_running(Cur, i, rep).ret <=>
            (container[i] # 0 /\ Alive(Cur, container[i]) /\ rep = "running")

(* C17 amended: in every state, is_running of an instance is true exactly *)
(* when the instance is initialized, its container handle is non-null and *)
(* the engine reports the container as running.                           *)
C17_LiveIffInitializedContainerRunning ==
    \A i \in Insts, rep \in Reports :
        is_running(Cur, i, rep).ret <=>
            (/\ initialized[i]
             /\ container[i] # 0 /\ Alive(Cur, container[i]) /\ rep = "running")

(* A start() has failed and its forced removal too: the handle is kept,   *)
(* the engine still has the container, the instance is not initialized.   *)
C17_Witness ==
    \E i \in Insts :
        /\ life[i] = "start_failed" /\ ~initialized[i]
        /\ container[i] # 0 /\ Alive(Cur, container[i])
        /\ last.op = "is_running" /\ last.inst = i /\ last.rep = "running"
        /\ ~last.ret

(* C18: is_running never raises; not initialized or without a container   *)
(* handle it answers false without an engine call; otherwise it refreshes *)
(* the status once, answers true exactly for status running and false     *)
(* when the refresh fails.                                                *)
C18_IsRunningTotal ==
    last.op = "is_running" =>
        /\ ~last.raised
        /\ (~last.pre.initialized \/ last.pre.container = 0) =>
               (last.reloads = 0 /\ last.calls = 0 /\ ~last.ret)
        /\ (last.pre.initialized /\ last.pre.container # 0) =>
               /\ last.reloads = 1
               /\ last.ret <=> (Alive(Cur, last.pre.container) /\ last.rep = "running")
               /\ (~Alive(Cur, last.pre.container) \/ last.rep = "error") => ~last.ret

C18_Witness ==
    /\ last.op = "is_running" /\ last.pre.initialized /\ last.pre.container # 0
    /\ Alive(Cur, last.pre.container) /\ last.rep = "error" /\ ~last.ret

(* C19: read_file and write_file raise NotImplementedError for every      *)
(* argument, whatever the state of the instance, and change no field of   *)
(* the instance.                                                          *)
C19_FileIOUnsupported ==
    last.op \in {"read_file", "write_file"} =>
        /\ last.raised
        /\ last.exc.type = "NotImplementedError"
        /\ Fields(Cur, last.inst) = last.pre

C19_Witness ==
    /\ last.op = "write_file" /\ last.raised
    /\ life[last.inst] = "running" /\ last.pre.initialized

(* C20: when `async with instance` enters its block the instance is       *)
(* initialized; when the block is left stop() has been called once and    *)
(* is_running is false.                                                   *)
C20_ContextManager ==
    /\ (last.op = "start" /\ last.caller = "aenter" /\ ~last.callerRaised) =>
           (initialized[last.inst] /\ block[last.inst])
    /\ last.op = "aexit" =>
           (last.stops[last.inst] = 1 /\ ~block[last.inst] /\ NeverRunningNow)

C20_Witness ==
    /\ last.op = "aexit" /\ last.pre.initialized /\ last.pre.container # 0
    /\ last.raised /\ container[last.inst] # 0

(* C21: instances are isolated under concurrency.  In every interleaving  *)
(* of start, exec and stop on distinct instances no two instances hold    *)
(* the same container handle, an exec that reaches the engine reaches the *)
(* container of its own instance, and a step of a call on one instance    *)
(* leaves the fields and the container of every other instance as they    *)
(* were.                                                                  *)
HandlesDistinct ==
    \A i, j \in Insts : (i # j /\ container[i] # 0) => container[i] # container[j]

ExecOwnContainer ==
    (last.op = "exec" /\ last.run.called) =>
        /\ last.run.container = container[last.inst]
        /\ \A j \in Insts : j # last.inst => container[j] # last.run.container

OthersUnchanged ==
    \A j \in Insts : j # last'.inst =>
        /\ container'[j] = container[j]
        /\ docker_client'[j] = docker_client[j]
        /\ initialized'[j] = initialized[j]
        /\ container[j] # 0 => cstate'[container[j]] = cstate[container[j]]

C21_InstancesIsolated ==
    [](HandlesDistinct /\ ExecOwnContainer) /\ [][OthersUnchanged]_vars

C21_Witness ==
    /\ last.op = "exec" /\ last.run.called
    /\ \E t \in Tasks : task[t].pc # "idle" /\ task[t].inst # last.inst
    /\ \A i \in Insts : container[i] # 0
(* C22: execute_python_code on a live instance opens the remote command   *)
(* channel lazily.  start() leaves the channel unconnected; a call of     *)
(* execute_python_code on an initialized instance whose container the     *)
(* engine knows returns the response (it does not raise) and leaves the   *)
(* channel connected.                                                     *)
C22_LazyChannel ==
    /\ (last.op = "start" /\ last.caller = "start" /\ ~last.raised) =>
            rcon_client[last.inst] = "absent"
    /\ (/\ last.op = "execute_python_code"
        /\ last.pre.initialized
        /\ last.pre.container # 0
        /\ cstate[last.pre.container] = "present") =>
            /\ ~last.raised
            /\ last.exc = NoExc
            /\ rcon_client[last.inst] = "open"

(* C23: stop() on a started instance that holds an open remote command    *)
(* channel closes the channel and clears its handle: after the call the   *)
(* instance holds no open channel.                                        *)
C23_StopClosesChannel ==
    (last.op = "stop" /\ last.pre.initialized /\ last.pre.container # 0) =>
        rcon_client[last.inst] # "open"
(* C24: a readiness poll that observes status exited aborts start() at    *)
(* that poll.  No start() is suspended, about to query again, after it    *)
(* has observed exited; and a start() that observed exited raises an      *)
(* error that carries the captured logs of the container.                 *)
C24_ExitedAbortsPolling ==
    /\ \A t \in Tasks : task[t].pc # "idle" => ~task[t].sawExited
    /\ (last.op = "start" /\ last.sawExited) =>
            /\ last.raised
            /\ last.exc.msg = StartFailedPrefix \o ExitedMsg

(* C25: start() always terminates.  A start() makes at most max_attempts  *)
(* status queries; it is suspended in the grace sleep exactly when its    *)
(* latest query reported running, and it then returns; a start() that     *)
(* raises after it created its container has made max_attempts queries,   *)
(* none of which reported running; and every suspended start() returns or *)
(* raises.                                                                *)
QueriesBounded ==
    /\ \A t \in Tasks : task[t].pc # "idle" => task[t].attempt + 1 <= max_attempts
    /\ (last.op \in {"start", "start_step"}) => last.reloads <= max_attempts

ReadyOnRunning ==
    /\ (last.op = "start_step") =>
          \A t \in Tasks : task[t].inst = last.inst =>
              /\ task[t].pc = "grace_sleep" <=> last.rep = "running"
              /\ task[t].pc = "poll_sleep" <=> last.rep # "running"
              /\ last.reloads = task[t].attempt + 1
    /\ (last.op = "start" /\ last.cid # 0 /\ ~last.raised) =>
          /\ last.reloads \in 1..max_attempts
          /\ initialized[last.inst]
    /\ (last.op = "start" /\ last.cid # 0 /\ last.raised) =>
          /\ last.reloads = max_attempts
          /\ last.exc = [type |-> "RuntimeError",
                         msg |-> StartFailedPrefix \o NotReadyMsg]
          /\ ~initialized[last.inst]

C25_StartTerminates ==
    /\ [](QueriesBounded /\ ReadyOnRunning)
    /\ \A t \in Tasks : (task[t].pc # "idle") ~> (task[t].pc = "idle")

C25_Witness ==
    /\ last.op = "start" /\ last.raised /\ last.cid # 0
    /\ last.reloads = max_attempts
(* C26: when the graceful path of stop() fails (container.stop or the     *)
(* remove after it raises), stop() attempts remove(force=True) on the     *)
(* container; when that fails too, stop() raises, and the state it        *)
(* raises in has the instance not initialized and the engine client       *)
(* closed and released.                                                   *)
C26_StopForcedRemoval ==
    (/\ last.op = "stop"
     /\ last.pre.initialized
     /\ last.pre.container # 0
     /\ last.arg # <<"ok">>) =>
        /\ last.forcedOn = last.pre.container
        /\ ~last.forceOK =>
              /\ last.raised
              /\ ~initialized[last.inst]
              /\ docker_client[last.inst] = 0
              /\ last.closedClient = last.pre.docker_client

C26_Witness ==
    /\ last.op = "stop" /\ last.arg = <<"stop_fails">>
    /\ last.forcedOn # 0 /\ ~last.forceOK /\ last.raised
    /\ last.pre.docker_client # 0
(* C27: sample_cleanup fans the stop operations out.  When it is given    *)
(* two environments or more, the stop() of some environment is issued     *)
(* before the stop() of an environment issued earlier has completed.      *)
C27_CleanupFanOut ==
    (last.op = "sample_cleanup" /\ Len(last.arg) >= 2) =>
        \E a, b \in 1..Len(last.log) :
            /\ a < b
            /\ last.log[a][1] = "issue"
            /\ last.log[b][1] = "issue"
            /\ \A c \in a..b : last.log[c] # <<"done", last.log[a][2]>>
(* C28: on a live instance, exec() of a command that does not start with  *)
(* "python", "-c" calls exec_run once, on the container of the instance,  *)
(* with that command, the given working directory and the given           *)
(* environment (the empty mapping when none is given); and when exec_run  *)
(* returns, the result has success = (exit code = 0), the exit code as    *)
(* returncode, the captured output as stdout and an empty stderr.         *)
C28_DirectExec ==
    (last.op = "exec" /\ WasLive /\ ~HasScriptPrefix(last.arg)) =>
        /\ last.run = [called |-> TRUE, container |-> last.pre.container,
                       cmd |-> last.arg, workdir |-> last.cwd,
                       environment |-> IF last.env = "None" THEN "{}" ELSE last.env]
        /\ last.calls = 2
        /\ ~last.ran.raised =>
              last.result = [success |-> (last.ran.exit_code = 0),
                             returncode |-> last.ran.exit_code,
                             stdout |-> last.ran.output, stderr |-> ""]

(* C29: on a live instance, an exception raised by exec_run does not      *)
(* leave exec(): the call returns the failure result with returncode 1,   *)
(* empty stdout and a stderr made of the exception message behind the     *)
(* prefix "Execution failed: ", which is not the not-running message.     *)
C29_ExecRunFault ==
    (last.op = "exec" /\ WasLive /\ last.run.called /\ last.ran.raised) =>
        /\ ~last.raised
        /\ last.result = [success |-> FALSE, returncode |-> 1, stdout |-> "",
                          stderr |-> ExecFailedPrefix \o last.ran.msg]
        /\ last.result.stderr # NotRunningMsg

C29_Witness ==
    /\ last.op = "exec" /\ WasLive /\ last.run.called /\ last.ran.raised
    /\ last.ran.msg = EngineErrMsg

(* C30: on a live instance, exec() of exactly <<"python", "-c">> returns  *)
(* the failure result with stderr "No Python code provided"; it does not  *)
(* raise, does not call execute_python_code and does not call exec_run    *)
(* (its one engine call is the status query of is_running).               *)
C30_NoCode ==
    (last.op = "exec" /\ WasLive /\ last.arg = <<"python", "-c">>) =>
        /\ ~last.raised
        /\ last.result = [success |-> FALSE, returncode |-> 1, stdout |-> "",
                          stderr |-> NoCodeMsg]
        /\ ~last.py.called
        /\ ~last.run.called
        /\ last.calls = 1

C30_Witness == last.op = "exec" /\ WasLive /\ last.arg = <<"python", "-c">>
(* C31: the initialized flag of an instance goes from false to true only  *)
(* in the step in which its start() returns normally from the grace sleep *)
(* that follows a successful readiness poll, and from true to false only  *)
(* in a stop() of that instance (called directly or by sample_cleanup);   *)
(* exec, is_running, read_file, write_file, task_init, task_cleanup and   *)
(* the stubbed operations leave the flag, the container handle and the    *)
(* engine client handle of every instance unchanged.                      *)
FrameOps ==
    {"exec", "is_running", "read_file", "write_file", "task_init", "task_cleanup"}
        \cup StubNames

FlagSetOnlyByStart ==
    \A i \in Insts : (~initialized[i] /\ initialized'[i]) =>
        /\ last'.op = "start" /\ last'.inst = i /\ ~last'.raised
        /\ \E t \in Tasks : task[t].inst = i /\ task[t].pc = "grace_sleep"

FlagResetOnlyByStop ==
    \A i \in Insts : (initialized[i] /\ ~initialized'[i]) =>
        \/ last'.op = "stop" /\ last'.inst = i
        \/ last'.op = "sample_cleanup" /\ last'.stops[i] > 0

FrameOpsChangeNothing ==
    (last'.op \in FrameOps) =>
        /\ container' = container
        /\ docker_client' = docker_client
        /\ initialized' = initialized

C31_FlagFrame ==
    [][FlagSetOnlyByStart /\ FlagResetOnlyByStop /\ FrameOpsChangeNothing]_vars

C31_Witness ==
    /\ last.op \in FrameOps \ {"task_init", "task_cleanup"}
    /\ last.pre.initialized /\ initialized[last.inst]
    /\ \E j \in Insts : j # last.inst /\ life[j] = "stopped"

(* C32: for every configuration and every instance id, the host game      *)
(* port start() computes lies in base_port..base_port+999 and the host    *)
(* remote-command port in rcon_port..rcon_port+999; both are their base   *)
(* plus one and the same offset, which is not negative and is congruent   *)
(* to hash(instance_id) modulo 1000.                                      *)
C32_PortsInRange ==
    (last.op = "start_ports") =>
        \A k \in 1..Len(last.net.ports) :
            LET p == last.net.ports[k]
                off == p.game - last.net.base_port
            IN
            /\ p.game \in last.net.base_port .. (last.net.base_port + 999)
            /\ p.rcon \in last.net.rcon_port .. (last.net.rcon_port + 999)
            /\ p.rcon - last.net.rcon_port = off
            /\ off >= 0
            /\ (last.net.hashes[k] - off) % 1000 = 0

C32_Witness ==
    /\ last.op = "start_ports"
    /\ last.net.hashes[1] < 0
    /\ last.net.ports[1].game > last.net.base_port

SameOffset(h1, h2) == (h1 - h2) % 1000 = 0

C34_RestartAfterStop ==
    (last.op = "start" /\ last.caller = "start_again" /\ ~last.raised) =>
        /\ last.cid # 0
        /\ last.calls > 0
        /\ last.reloads >= 1
        /\ container[last.inst] = last.cid
        /\ cstate[last.cid] = "present"
        /\ docker_client[last.inst] = last.cid
        /\ \A j \in Insts : j # last.inst => docker_client[j] # last.cid
        /\ initialized[last.inst]
        /\ RunningNow("running")

C34_Witness ==
    /\ last.op = "start" /\ last.caller = "start_again" /\ ~last.raised
    /\ initialized[last.inst]
    /\ \E c \in Cids : c # last.cid /\ cstate[c] = "removed"

(* C35: stop() raises whenever its graceful path fails, whether the       *)
(* failing call is container.stop or container.remove, and also when the  *)
(* forced removal then succeeds; in that case the container handle is     *)
(* None, the instance is not initialized, and the engine client has been  *)
(* closed and its handle cleared when the fault reaches the caller.       *)
GracefulPathFailed ==
    last.op = "stop" /\ last.arg \in {<<"stop_fails">>, <<"remove_fails">>}

C35_StopRaisesOnGracefulFailure ==
    GracefulPathFailed =>
        /\ last.raised
        /\ last.forceOK =>
              /\ container[last.inst] = 0
              /\ ~initialized[last.inst]
              /\ docker_client[last.inst] = 0
              /\ last.closedClient # 0
              /\ last.closedClient = last.pre.docker_client

C35_Witness ==
    /\ GracefulPathFailed /\ last.arg = <<"remove_fails">>
    /\ last.forceOK /\ last.raised
    /\ cstate[last.pre.container] = "removed"

(* C36: a stop() that follows a failed start() is a no-op: it makes no    *)
(* engine call, raises nothing, closes no engine client and leaves the    *)
(* client handle and the container handle as the failed start() left      *)
(* them; and the client handle of an instance becomes None only in a      *)
(* stop() of an initialized instance, that is, after a start() that       *)
(* succeeded.                                                             *)
StopAfterFailedStart == last.op = "stop" /\ life[last.inst] = "start_failed"

ClientClearedOnlyByRealStop ==
    \A i \in Insts :
        (docker_client[i] # 0 /\ docker_client'[i] = 0) =>
            /\ initialized[i] /\ container[i] # 0
            /\ life'[i] = "stopped"

C36_StopAfterFailedStartIsNoop ==
    /\ [](StopAfterFailedStart =>
            /\ last.calls = 0
            /\ ~last.raised
            /\ last.closedClient = 0
            /\ docker_client[last.inst] = last.pre.docker_client
            /\ container[last.inst] = last.pre.container
            /\ ~initialized[last.inst])
    /\ [][ClientClearedOnlyByRealStop]_vars

C36_Witness ==
    /\ StopAfterFailedStart
    /\ last.pre.docker_client # 0 /\ docker_client[last.inst] = last.pre.docker_client
    /\ last.pre.container # 0

(* C37: a stop() that runs while start() of the same instance is          *)
(* suspended in its readiness polling is a no-op: the step changes no     *)
(* field of any instance, no container and no coroutine, makes no engine  *)
(* call and raises nothing, so the container start() created is neither   *)
(* stopped nor removed; and the suspended start() can go on: from the     *)
(* grace sleep it can return with the instance initialized on that        *)
(* container, and from a polling sleep with attempts left it can read     *)
(* status running.                                                        *)
StopMidStart == last.op = "stop" /\ Busy(last.inst)

StartCanGoOn(t) ==
    LET i == task[t].inst IN
    /\ task[t].pc = "grace_sleep" =>
          ENABLED (/\ StartFinish(t)
                   /\ initialized'[i]
                   /\ container'[i] = task[t].cid
                   /\ cstate'[task[t].cid] = "present"
                   /\ ~last'.raised)
    /\ (task[t].pc = "poll_sleep" /\ ~LoopExhausted(task[t].attempt + 1)) =>
          ENABLED (StartPoll(t) /\ task'[t].pc = "grace_sleep")

MidStartStopChangesNothing ==
    (last'.op = "stop" /\ Busy(last'.inst)) =>
        UNCHANGED <<container, docker_client, initialized, rcon_client, cstate,
                    nstarts, task, life, instance_id, block>>

C37_StopDuringStartIsNoop ==
    /\ [](StopMidStart =>
            /\ last.calls = 0
            /\ ~last.raised
            /\ last.closedClient = 0
            /\ ~initialized[last.inst]
            /\ \A t \in Tasks :
                   (task[t].pc # "idle" /\ task[t].inst = last.inst) =>
                       /\ container[last.inst] = task[t].cid
                       /\ cstate[task[t].cid] = "present"
                       /\ StartCanGoOn(t))
    /\ [][MidStartStopChangesNothing]_vars

C37_Witness ==
    /\ StopMidStart
    /\ last.calls = 0
    /\ \E t \in Tasks :
          /\ task[t].inst = last.inst /\ task[t].pc = "grace_sleep"
          /\ container[last.inst] = task[t].cid

(* C38: in every interleaving of start() calls on one instance, a second  *)
(* start() issued while the first is suspended included, at most one     *)
(* container that was created for the instance and not removed exists,    *)
(* and the container handle of the instance refers to it.                 *)
CreatedNotRemoved == {c \in Cids : cstate[c] = "present"}

C38_AtMostOneContainer ==
    /\ Cardinality(CreatedNotRemoved) <= 1
    /\ \A c \in CreatedNotRemoved : container[Shared] = c
====
